---- MODULE Spec2Model ----
(***************************************************************************)
(* A model of the MapReduce framework: the JobStateManager progress word,  *)
(* the Barrier, the worker pipeline of threadFunc (map, sort, barrier,     *)
(* shuffle by thread 0, barrier, reduce) and the job-handle API            *)
(* (getJobState, waitForJob, closeJobHandle), run with the character       *)
(* counting client of example/SampleClient.cpp.                            *)
(***************************************************************************)
EXTENDS Integers, Sequences, FiniteSets, Bags

\* ------------------------------------------------------------------ bounds
MaxThreads == 2      \* multiThreadLevel ranges over 1..MaxThreads
MaxInput == 2        \* inputVec.size() ranges over 1..MaxInput
MaxCallers == 2      \* client threads that call waitForJob / closeJobHandle
MaxBarrierThreads == 3   \* numThreads of a Barrier used on its own
MaxCycles == 4       \* calls of Barrier::barrier by each of its threads

\* --------------------------------------------------------------- constants
UNDEFINED_STAGE == 0
MAP_STAGE == 1
SHUFFLE_STAGE == 2
REDUCE_STAGE == 3
MAX_PERCENTAGE == 100
STAGE_MASK == 3
MAX_31_BITS == 2147483647
THREAD_ZERO == 0

\* ------------------------------------------------------------------- state
VARIABLES
  nThreads,          \* multiThreadLevel of the job
  inputVec,          \* the input: a sequence of string contents (V1)
  state,             \* JobStateManager::state, the packed progress word
  pc,                \* position of each worker thread in threadFunc
  oldVal,            \* the local oldVal of a worker inside a CAS loop
  oldValue,          \* the local oldValue of mapPhase / reducePhase
  intermediateVecs,  \* JobContext::intermediateVecs, one per worker
  shuffledData,      \* JobContext::shuffledData
  shuffleCounter,    \* JobContext::shuffleCounter
  nextInputIndex,    \* JobContext::nextInputIndex
  nextReduceIndex,   \* JobContext::nextReduceIndex
  shuf,              \* locals of shufflePhase: totalPairs, maxKey, vec cursor
  count,             \* Barrier::count
  generation,        \* Barrier::generation
  gen,               \* the local gen of a worker inside Barrier::barrier
  outputVec,         \* the caller's output vector
  outMutex,          \* JobContext::outMutex: its holder, or NoThread
  mapLog,            \* history: bag of the indices passed to client.map
  emitLog,           \* history: bag of the pairs passed to emit2
  reduceLog,         \* history: bag of <<index, worker>> of the reduce calls
  stageLog,          \* history: the stages the progress word has held
  lastObs,           \* the JobState written by the latest getJobState
  callers,           \* the client threads inside waitForJob / closeJobHandle
  joined,            \* JobContext::joined
  joinCount,         \* history: how often threads[i].join() has returned
  joinMutex,         \* JobContext::joinMutex: its holder, or NoThread
  deleted,           \* history: how often the context has been deleted
  useAfterFree,      \* history: the context was used after its deletion
  handle,            \* what startMapReduceJob returned, "none" before it
  allocated,         \* history: how many JobContext objects were created
  entered,           \* history: the calls of barrier() each thread has begun
  left               \* history: the calls of barrier() each thread has ended

workerVars == <<pc, oldVal, oldValue, intermediateVecs, shuffledData,
                shuffleCounter, nextInputIndex, nextReduceIndex, shuf, count,
                generation, gen, outputVec, outMutex, mapLog, emitLog,
                reduceLog>>
handleVars == <<callers, joined, joinCount, joinMutex, deleted, useAfterFree,
                handle, allocated>>
barrierLog == <<entered, left>>
vars == <<nThreads, inputVec, state, workerVars, stageLog, lastObs, handleVars,
          barrierLog>>

NoThread == 0 - 1       \* no holder of a mutex
NoKey == <<>>
NoIndex == 0 - 1        \* a local oldValue that is no longer used
NoWord == <<>>          \* a local oldVal that is not in scope
NoObs == [stage |-> -1, percentage |-> <<0, 1>>]
Workers == 0 .. (nThreads - 1)
Callers == 1 .. MaxCallers

\* ---------------------------------------------------------- JobStateManager
\* x & mask for a non-negative x and a mask of the form 2^k - 1.
BitAnd(x, mask) == x % (mask + 1)

\* x & MAX_31_BITS. Every integer the checker can hold is below 2^31, so the
\* mask leaves it as it is; MAX_31_BITS + 1 itself is out of range.
Mask31(x) == IF x > MAX_31_BITS THEN x - MAX_31_BITS - 1 ELSE x

\* The packed word, kept as its three bit fields [63..62 | 61..31 | 30..0].
encodeState(stage, processed, total) ==
  [stage |-> BitAnd(stage, STAGE_MASK),
   processed |-> Mask31(processed),
   total |-> Mask31(total)]

decodeStage(v) == BitAnd(v.stage, STAGE_MASK)
decodeProcessed(v) == Mask31(v.processed)
decodeTotal(v) == Mask31(v.total)

\* incrementProcessed that writes the word back as it read it.
incrementProcessedStale(old) == old

\* incrementProcessed that encodes the new count without the total it read.
incrementProcessedDropsTotal(old) ==
  encodeState(decodeStage(old), decodeProcessed(old) + 1, 0)

\* The value incrementProcessed tries to install over oldVal.
incrementProcessed(old) ==
  encodeState(decodeStage(old), decodeProcessed(old) + 1, decodeTotal(old))

\* setTotal that does not keep the stage of the word it replaces.
setTotalDropsStage(old, newTotal) == encodeState(UNDEFINED_STAGE, 0, newTotal)

\* The value setTotal(newTotal) tries to install over oldVal.
setTotal(old, newTotal) == encodeState(decodeStage(old), 0, newTotal)

\* The value setStage(newStage) tries to install over oldVal.
setStage(old, newStage) == encodeState(newStage, 0, decodeTotal(old))

\* ------------------------------------------------------------------ client
\* K2 objects: the character and the identity of the object (the map call
\* that allocated it). operator< compares the characters only.
KChar(c, id) == <<c, id>>
Less(a, b) == a[1] < b[1]
Equiv(a, b) == ~Less(a, b) /\ ~Less(b, a)

Occurrences(content, c) ==
  Cardinality({i \in 1 .. Len(content) : content[i] = c})

\* CounterClient::map: count each character, then call emit2 with
\* (char, count) for the characters that occur, in increasing character order
\* (the loop over the counts array skips the characters whose count is 0).
\* The sequence of the (key, value) pairs it passes to emit2.
RECURSIVE MapEmitLoop(_, _, _)
MapEmitLoop(chars, content, id) ==
  IF chars = {} THEN <<>>
  ELSE LET i == CHOOSE c \in chars : \A d \in chars : c <= d
       IN <<[key |-> KChar(i, id), val |-> Occurrences(content, i)]>>
            \o MapEmitLoop(chars \ {i}, content, id)

ClientMap(content, id) ==
  MapEmitLoop({content[i] : i \in 1 .. Len(content)}, content, id)

\* emit2: append the pair to the intermediate vector of the thread context.
emit2(vec, pair) == Append(vec, pair)

\* The vector after the emit2 calls of one map call.
RECURSIVE EmitAll(_, _)
EmitAll(vec, pairs) ==
  IF pairs = <<>> THEN vec ELSE EmitAll(emit2(vec, pairs[1]), Tail(pairs))

RECURSIVE SumCounts(_)
SumCounts(pairs) ==
  IF pairs = <<>> THEN 0 ELSE pairs[1].val + SumCounts(Tail(pairs))

\* CounterClient::reduce: the (char, sum) pair it passes to emit3.
ClientReduce(pairs) == [key |-> pairs[1].key[1], val |-> SumCounts(pairs)]

\* The string contents the input is drawn from.
Contents == {<<>>, <<1>>, <<2, 1>>}

\* ----------------------------------------------------------------- helpers
RECURSIVE SeqToBag(_)
SeqToBag(s) ==
  IF s = <<>> THEN EmptyBag ELSE SetToBag({s[1]}) (+) SeqToBag(Tail(s))

RECURSIVE Flatten(_)
Flatten(ss) == IF ss = <<>> THEN <<>> ELSE ss[1] \o Flatten(Tail(ss))

\* vec.front() where vec.back() is meant.
Front(vec) == vec[1]

\* vec.back()
Back(vec) == vec[Len(vec)]

\* Removing the first element where the last is meant.
PopFront(vec) == SubSeq(vec, 2, Len(vec))

\* The vector after vec.pop_back()
PopBack(vec) == SubSeq(vec, 1, Len(vec) - 1)

IsSortedVec(vec) ==
  \A i \in 1 .. Len(vec) : \A j \in i .. Len(vec) : ~Less(vec[j].key, vec[i].key)

\* The orderings of the elements of vec at the positions idxs that are
\* ascending by key: a least element first, then the rest.
RECURSIVE SortedOrders(_, _)
SortedOrders(vec, idxs) ==
  IF idxs = {} THEN {<<>>}
  ELSE UNION {{<<vec[i]>> \o r : r \in SortedOrders(vec, idxs \ {i})} :
                i \in {j \in idxs : \A k \in idxs : ~Less(vec[k].key, vec[j].key)}}

\* A sortPhase that leaves the vector as the map calls filled it.
SortResultsUnsorted(vec) == {vec}

\* std::sort with the key comparator: some ordering of the same elements
\* that is ascending by key (the sort is not stable).
SortResults(vec) == SortedOrders(vec, 1 .. Len(vec))

\* ------------------------------------------------------------------- start
\* startMapReduceJob with a non-empty input: the context as constructed,
\* thread 0 about to call setStage(MAP_STAGE), the others about to fetch.
StartPc(w) == IF w = THREAD_ZERO THEN "mapstage_load" ELSE "map_fetch"

\* The members of the JobContext as its constructor leaves them, and the
\* rest of the state of a job that has not run.
InitContext ==
  /\ state = encodeState(UNDEFINED_STAGE, 0, Len(inputVec))
  /\ oldVal = [w \in Workers |-> NoWord]
  /\ oldValue = [w \in Workers |-> NoIndex]
  /\ intermediateVecs = [w \in Workers |-> <<>>]
  /\ shuffledData = <<>>
  /\ shuffleCounter = 0
  /\ nextInputIndex = 0
  /\ nextReduceIndex = 0
  /\ shuf = [totalPairs |-> 0, maxKey |-> NoKey, vec |-> 0]
  /\ count = 0
  /\ generation = 0
  /\ gen = [w \in Workers |-> 0]
  /\ outputVec = <<>>
  /\ outMutex = NoThread
  /\ mapLog = EmptyBag
  /\ emitLog = EmptyBag
  /\ reduceLog = EmptyBag
  /\ stageLog = <<UNDEFINED_STAGE>>
  /\ lastObs = NoObs
  /\ callers = [c \in Callers |-> [pc |-> "idle", op |-> "none", i |-> 0]]
  /\ joined = [w \in Workers |-> FALSE]
  /\ joinCount = [w \in Workers |-> 0]
  /\ joinMutex = NoThread
  /\ deleted = 0
  /\ useAfterFree = FALSE
  /\ entered = [w \in Workers |-> 0]
  /\ left = [w \in Workers |-> 0]

\* A job as startMapReduceJob returns it for a non-empty input and at least
\* one thread.
Init ==
  /\ nThreads \in 1 .. MaxThreads
  /\ inputVec \in UNION {[1 .. n -> Contents] : n \in 1 .. MaxInput}
  /\ pc = [w \in Workers |-> StartPc(w)]
  /\ handle = "ctx"
  /\ allocated = 1
  /\ InitContext

\* A start that constructs the context and the threads before it looks at
\* the input.
StartOutcomesNoEmptyCheck(input, n) ==
  IF n < 0
  THEN {[handle |-> "threw", allocated |-> 0, spawned |-> FALSE],
        [handle |-> "exited", allocated |-> 0, spawned |-> FALSE]}
  ELSE {[handle |-> "ctx", allocated |-> 1, spawned |-> TRUE]}

\* What a call startMapReduceJob(client, input, outputVec, n) can do: return
\* nullptr for an empty input; else construct the context and the n threads
\* and return the context. For n < 0 the vectors of the context are given
\* the size (size_t) n: the constructor throws std::length_error, which
\* leaves the function, or std::bad_alloc, on which the process exits.
StartOutcomes(input, n) ==
  IF input = <<>>
  THEN {[handle |-> "null", allocated |-> 0, spawned |-> FALSE]}
  ELSE IF n < 0
       THEN {[handle |-> "threw", allocated |-> 0, spawned |-> FALSE],
             [handle |-> "exited", allocated |-> 0, spawned |-> FALSE]}
       ELSE {[handle |-> "ctx", allocated |-> 1, spawned |-> TRUE]}

\* The call of startMapReduceJob by the client.
StartMapReduceJob ==
  /\ handle = "none"
  /\ \E r \in StartOutcomes(inputVec, nThreads) :
       /\ handle' = r.handle
       /\ allocated' = allocated + r.allocated
       /\ pc' = IF r.spawned THEN [w \in Workers |-> StartPc(w)] ELSE pc
  /\ UNCHANGED <<nThreads, inputVec, state, oldVal, oldValue,
                 intermediateVecs, shuffledData, shuffleCounter,
                 nextInputIndex, nextReduceIndex, shuf, count, generation,
                 gen, outputVec, outMutex, mapLog, emitLog, reduceLog,
                 stageLog, lastObs, callers, joined, joinCount, joinMutex,
                 deleted, useAfterFree, barrierLog>>

\* The client before its call of startMapReduceJob, with an empty or a
\* non-empty input and a multiThreadLevel from -1 to 2: no thread of the
\* job exists.
InitStart ==
  /\ nThreads \in (0 - 1) .. 2
  /\ inputVec \in UNION {[1 .. n -> Contents] : n \in 0 .. 1}
  /\ pc = [w \in Workers |-> "unborn"]
  /\ handle = "none"
  /\ allocated = 0
  /\ InitContext

\* ------------------------------------------------- progress word, in steps
LoadPcs == {"mapstage_load", "map_inc_load", "shufstage_load", "settotal_load",
            "shuf_inc_load", "red_inc_load"}

CasOf(p) ==
  CASE p = "mapstage_load" -> "mapstage_cas"
    [] p = "map_inc_load" -> "map_inc_cas"
    [] p = "shufstage_load" -> "shufstage_cas"
    [] p = "settotal_load" -> "settotal_cas"
    [] p = "shuf_inc_load" -> "shuf_inc_cas"
    [] p = "red_inc_load" -> "red_inc_cas"

CasPcs == {CasOf(p) : p \in LoadPcs}

\* Where the caller continues when the CAS loop returns.
AfterCas(p) ==
  CASE p = "mapstage_cas" -> "map_fetch"
    [] p = "map_inc_cas" -> "map_fetch"
    [] p = "shufstage_cas" -> "shuf_count"
    [] p = "settotal_cas" -> "shuf_scan"
    [] p = "shuf_inc_cas" -> "shuf_move"
    [] p = "red_inc_cas" -> "red_fetch"

\* The newVal the loop computes from oldVal.
NewVal(p, old) ==
  CASE p = "mapstage_cas" -> setStage(old, MAP_STAGE)
    [] p = "shufstage_cas" -> setStage(old, SHUFFLE_STAGE)
    [] p = "settotal_cas" -> setTotal(old, shuf.totalPairs)
    [] OTHER -> incrementProcessed(old)

LogStage(new) ==
  IF decodeStage(new) = stageLog[Len(stageLog)] THEN stageLog
  ELSE Append(stageLog, decodeStage(new))

\* uint64_t oldVal = state.load(acquire), the first line of the three loops.
LoadState(w) ==
  /\ pc[w] \in LoadPcs
  /\ oldVal' = [oldVal EXCEPT ![w] = state]
  /\ pc' = [pc EXCEPT ![w] = CasOf(pc[w])]
  /\ UNCHANGED <<nThreads, inputVec, state, oldValue, intermediateVecs,
                 shuffledData, shuffleCounter, nextInputIndex, nextReduceIndex,
                 shuf, count, generation, gen, outputVec, outMutex, mapLog,
                 emitLog, reduceLog, stageLog, lastObs, handleVars,
                 barrierLog>>

\* An exchange that does not compare: a plain store of newVal.
StoresAlways(current, expected) == TRUE

\* compare_exchange_weak succeeds when the word still is the expected one.
CasSucceeds(current, expected) == current = expected

\* A failed exchange that leaves the expected value as it was.
ExpectedKept(current, expected) == expected

\* What a failed compare_exchange_weak writes to its first argument: the
\* current word.
ExpectedOnFailure(current, expected) == current

\* state.compare_exchange_weak(oldVal, newVal): on success the word becomes
\* newVal and the operation returns; on failure oldVal becomes the current
\* word and the loop goes round. (A spurious failure leaves everything as it
\* is: a stuttering step.)
CompareExchange(w) ==
  /\ pc[w] \in CasPcs
  /\ IF CasSucceeds(state, oldVal[w])
     THEN /\ state' = NewVal(pc[w], oldVal[w])
          /\ stageLog' = LogStage(NewVal(pc[w], oldVal[w]))
          /\ pc' = [pc EXCEPT ![w] = AfterCas(pc[w])]
          /\ oldVal' = [oldVal EXCEPT ![w] = NoWord]
     ELSE /\ oldVal' = [oldVal EXCEPT ![w] =
                            ExpectedOnFailure(state, oldVal[w])]
          /\ UNCHANGED <<state, stageLog, pc>>
  /\ UNCHANGED <<nThreads, inputVec, oldValue, intermediateVecs,
                 shuffledData, shuffleCounter, nextInputIndex, nextReduceIndex,
                 shuf, count, generation, gen, outputVec, outMutex, mapLog,
                 emitLog, reduceLog, lastObs, handleVars,
                 barrierLog>>

\* --------------------------------------------------------------- mapPhase
\* A load where fetch_add is meant: the counter stays as it is.
FetchAddNone(counter) == counter

\* The value counter.fetch_add(1) leaves in the counter; the call returns
\* the value before it.
FetchAdd(counter) == counter + 1

\* nextInputIndex.fetch_add(1) and the bounds check that follows it.
MapFetch(w) ==
  /\ pc[w] = "map_fetch"
  /\ oldValue' = [oldValue EXCEPT ![w] =
                    IF nextInputIndex >= Len(inputVec) THEN NoIndex
                    ELSE nextInputIndex]
  /\ nextInputIndex' = FetchAdd(nextInputIndex)
  /\ pc' = [pc EXCEPT ![w] =
              IF nextInputIndex >= Len(inputVec) THEN "sort" ELSE "map_call"]
  /\ UNCHANGED <<nThreads, inputVec, state, oldVal, intermediateVecs,
                 shuffledData, shuffleCounter, nextReduceIndex, shuf, count,
                 generation, gen, outputVec, outMutex, mapLog, emitLog,
                 reduceLog, stageLog, lastObs, handleVars,
                 barrierLog>>

\* Every thread given the vector of thread 0.
FirstVec(w) == THREAD_ZERO

\* tc->intermediateVec of thread w: the address of intermediateVecs[w].
OwnVec(w) == w

\* client.map(fst, snd, tc) on the fetched pair: its emit2 calls append to
\* the vector of the thread context it is given, the thread's own.
MapCall(w) ==
  /\ pc[w] = "map_call"
  /\ intermediateVecs' =
       [intermediateVecs EXCEPT ![OwnVec(w)] =
          EmitAll(@, ClientMap(inputVec[oldValue[w] + 1], oldValue[w]))]
  /\ emitLog' = emitLog (+) SeqToBag(ClientMap(inputVec[oldValue[w] + 1], oldValue[w]))
  /\ mapLog' = mapLog (+) SetToBag({oldValue[w]})
  /\ pc' = [pc EXCEPT ![w] = "map_inc_load"]
  /\ UNCHANGED <<nThreads, inputVec, state, oldVal, oldValue, shuffledData,
                 shuffleCounter, nextInputIndex, nextReduceIndex, shuf, count,
                 generation, gen, outputVec, outMutex, reduceLog, stageLog,
                 lastObs, handleVars,
                 barrierLog>>

\* -------------------------------------------------------------- sortPhase
SortPhase(w) ==
  /\ pc[w] = "sort"
  /\ \E s \in SortResults(intermediateVecs[OwnVec(w)]) :
       intermediateVecs' = [intermediateVecs EXCEPT ![OwnVec(w)] = s]
  /\ pc' = [pc EXCEPT ![w] = "barrier1"]
  /\ UNCHANGED <<nThreads, inputVec, state, oldVal, oldValue, shuffledData,
                 shuffleCounter, nextInputIndex, nextReduceIndex, shuf, count,
                 generation, gen, outputVec, outMutex, mapLog, emitLog,
                 reduceLog, stageLog, lastObs, handleVars,
                 barrierLog>>

\* ---------------------------------------------------------------- Barrier
\* The calls of barrier(): the two of threadFunc, and the calls of a thread
\* that does nothing but call barrier() MaxCycles times.
ArrivePcs == {"barrier1", "barrier2", "bar_call"}
WaitOf(p) ==
  CASE p = "barrier1" -> "barrier1_wait"
    [] p = "barrier2" -> "barrier2_wait"
    [] p = "bar_call" -> "bar_wait"
WaitPcs == {WaitOf(p) : p \in ArrivePcs}

\* Where the caller continues after barrier() returns: threadFunc after its
\* first and its second barrier, or the next call of the thread that only
\* calls barrier().
AfterBarrier(w, p) ==
  IF p \in {"barrier1", "barrier1_wait"}
  THEN (IF w = THREAD_ZERO THEN "shufstage_load" ELSE "barrier2")
  ELSE IF p \in {"barrier2", "barrier2_wait"}
       THEN "red_fetch"
       ELSE IF left[w] + 1 < MaxCycles THEN "bar_call" ELSE "bar_done"

\* A test that lets the last but one arrival through.
MustWaitOffByOne(newCount, numThreads) == newCount < numThreads - 1

\* if (++count < numThreads): the caller has to wait.
MustWait(newCount, numThreads) == newCount < numThreads

\* A wait for the count to be reset instead of for a new generation.
WaitIsOverOnReset(g) == count = 0

\* A cv.wait(lock) without a predicate: any wake-up ends the wait.
WaitIsOverAlways(g) == TRUE

\* The predicate of cv.wait: gen != generation.
WaitIsOver(g) == g # generation

\* Barrier::barrier up to cv.wait or to its return, under the mutex.
BarrierArrive(w) ==
  /\ pc[w] \in ArrivePcs
  /\ gen' = [gen EXCEPT ![w] = generation]
  /\ entered' = [entered EXCEPT ![w] = @ + 1]
  /\ IF MustWait(count + 1, nThreads)
     THEN /\ count' = count + 1
          /\ pc' = [pc EXCEPT ![w] = WaitOf(pc[w])]
          /\ UNCHANGED <<generation, left>>
     ELSE /\ count' = 0
          /\ generation' = generation + 1
          /\ left' = [left EXCEPT ![w] = @ + 1]
          /\ pc' = [pc EXCEPT ![w] = AfterBarrier(w, pc[w])]
  /\ UNCHANGED <<nThreads, inputVec, state, oldVal, oldValue,
                 intermediateVecs, shuffledData, shuffleCounter,
                 nextInputIndex, nextReduceIndex, shuf, outputVec, outMutex,
                 mapLog, emitLog, reduceLog, stageLog, lastObs, handleVars>>

\* cv.wait(lock, gen != generation) returning.
BarrierWake(w) ==
  /\ pc[w] \in WaitPcs
  /\ WaitIsOver(gen[w])
  /\ left' = [left EXCEPT ![w] = @ + 1]
  /\ pc' = [pc EXCEPT ![w] = AfterBarrier(w, pc[w])]
  /\ UNCHANGED <<nThreads, inputVec, state, oldVal, oldValue,
                 intermediateVecs, shuffledData, shuffleCounter,
                 nextInputIndex, nextReduceIndex, shuf, count, generation,
                 gen, outputVec, outMutex, mapLog, emitLog, reduceLog,
                 stageLog, lastObs, handleVars, entered>>

\* ------------------------------------------------------------ shufflePhase
\* A count of the vector of the calling thread only.
SumSizesOwnVector(vecs, i) == Len(vecs[THREAD_ZERO])

\* totalPairs: the sum of the sizes of the intermediate vectors from i on.
RECURSIVE SumSizes(_, _)
SumSizes(vecs, i) ==
  IF i >= nThreads THEN 0 ELSE Len(vecs[i]) + SumSizes(vecs, i + 1)

\* The first loop of shufflePhase: totalPairs.
ShuffleCount(w) ==
  /\ pc[w] = "shuf_count"
  /\ shuf' = [shuf EXCEPT !.totalPairs = SumSizes(intermediateVecs, 0)]
  /\ pc' = [pc EXCEPT ![w] = "settotal_load"]
  /\ UNCHANGED <<nThreads, inputVec, state, oldVal, oldValue,
                 intermediateVecs, shuffledData, shuffleCounter,
                 nextInputIndex, nextReduceIndex, count, generation, gen,
                 outputVec, outMutex, mapLog, emitLog, reduceLog, stageLog,
                 lastObs, handleVars,
                 barrierLog>>

\* A scan that settles for the back key of the first non-empty vector.
RECURSIVE FindFirstKey(_, _, _)
FindFirstKey(vecs, i, maxKey) ==
  IF i >= nThreads THEN maxKey
  ELSE IF vecs[i] # <<>> /\ maxKey = NoKey
       THEN FindFirstKey(vecs, i + 1, Back(vecs[i]).key)
       ELSE FindFirstKey(vecs, i + 1, maxKey)

\* The max-key scan: over the vectors in order, the back key of a non-empty
\* vector replaces maxKey when maxKey is null or less than it.
RECURSIVE FindMaxKey(_, _, _)
FindMaxKey(vecs, i, maxKey) ==
  IF i >= nThreads THEN maxKey
  ELSE IF vecs[i] # <<>> /\ (maxKey = NoKey \/ Less(maxKey, Back(vecs[i]).key))
       THEN FindMaxKey(vecs, i + 1, Back(vecs[i]).key)
       ELSE FindMaxKey(vecs, i + 1, maxKey)

\* One round of the outer loop up to the new, empty group.
ShuffleScan(w) ==
  /\ pc[w] = "shuf_scan"
  /\ IF FindMaxKey(intermediateVecs, 0, NoKey) = NoKey
     THEN /\ pc' = [pc EXCEPT ![w] = "publish"]
          /\ shuf' = [shuf EXCEPT !.maxKey = NoKey, !.vec = 0]
          /\ UNCHANGED shuffledData
     ELSE /\ shuf' = [shuf EXCEPT
                        !.maxKey = FindMaxKey(intermediateVecs, 0, NoKey),
                        !.vec = 0]
          /\ shuffledData' = Append(shuffledData, <<>>)
          /\ pc' = [pc EXCEPT ![w] = "shuf_move"]
  /\ UNCHANGED <<nThreads, inputVec, state, oldVal, oldValue,
                 intermediateVecs, shuffleCounter, nextInputIndex,
                 nextReduceIndex, count, generation, gen, outputVec, outMutex,
                 mapLog, emitLog, reduceLog, stageLog, lastObs, handleVars,
                 barrierLog>>

\* A loop condition that compares the key objects, not the keys' order.
TakesBackSameObject(vec, maxKey) == vec # <<>> /\ Back(vec).key = maxKey

\* A loop condition with one of the two comparisons left out.
TakesBackNotGreater(vec, maxKey) == vec # <<>> /\ ~Less(maxKey, Back(vec).key)

\* The condition of the inner while loop on a vector.
TakesBack(vec, maxKey) ==
  vec # <<>> /\ ~Less(Back(vec).key, maxKey) /\ ~Less(maxKey, Back(vec).key)

\* The collecting loops: move the back pair of the current vector to the
\* current group, or go on to the next vector, or (past the last vector)
\* count the group.
ShuffleMove(w) ==
  /\ pc[w] = "shuf_move"
  /\ IF shuf.vec >= nThreads
     THEN /\ shuffleCounter' = shuffleCounter + 1
          /\ pc' = [pc EXCEPT ![w] = "shuf_scan"]
          /\ UNCHANGED <<shuf, shuffledData, intermediateVecs>>
     ELSE IF TakesBack(intermediateVecs[shuf.vec], shuf.maxKey)
          THEN /\ shuffledData' =
                    [shuffledData EXCEPT ![Len(shuffledData)] =
                       Append(@, Back(intermediateVecs[shuf.vec]))]
               /\ intermediateVecs' =
                    [intermediateVecs EXCEPT ![shuf.vec] = PopBack(@)]
               /\ pc' = [pc EXCEPT ![w] = "shuf_inc_load"]
               /\ UNCHANGED <<shuf, shuffleCounter>>
          ELSE /\ shuf' = [shuf EXCEPT !.vec = shuf.vec + 1]
               /\ UNCHANGED <<pc, shuffledData, intermediateVecs,
                              shuffleCounter>>
  /\ UNCHANGED <<nThreads, inputVec, state, oldVal, oldValue,
                 nextInputIndex, nextReduceIndex, count, generation, gen,
                 outputVec, outMutex, mapLog, emitLog, reduceLog, stageLog,
                 lastObs, handleVars,
                 barrierLog>>

\* updateState(REDUCE_STAGE, 0, shuffleCounter.load()): a plain store.
Publish(w) ==
  /\ pc[w] = "publish"
  /\ state' = encodeState(REDUCE_STAGE, 0, shuffleCounter)
  /\ stageLog' = LogStage(encodeState(REDUCE_STAGE, 0, shuffleCounter))
  /\ pc' = [pc EXCEPT ![w] = "barrier2"]
  /\ UNCHANGED <<nThreads, inputVec, oldVal, oldValue, intermediateVecs,
                 shuffledData, shuffleCounter, nextInputIndex,
                 nextReduceIndex, shuf, count, generation, gen, outputVec,
                 outMutex, mapLog, emitLog, reduceLog, lastObs, handleVars,
                 barrierLog>>

\* ------------------------------------------------------------ reducePhase
\* nextReduceIndex.fetch_add(1) and the check against shuffleCounter.
ReduceFetch(w) ==
  /\ pc[w] = "red_fetch"
  /\ oldValue' = [oldValue EXCEPT ![w] =
                    IF nextReduceIndex >= shuffleCounter THEN NoIndex
                    ELSE nextReduceIndex]
  /\ nextReduceIndex' = FetchAdd(nextReduceIndex)
  /\ pc' = [pc EXCEPT ![w] =
              IF nextReduceIndex >= shuffleCounter THEN "done" ELSE "red_call"]
  /\ UNCHANGED <<nThreads, inputVec, state, oldVal, intermediateVecs,
                 shuffledData, shuffleCounter, nextInputIndex, shuf, count,
                 generation, gen, outputVec, outMutex, mapLog, emitLog,
                 reduceLog, stageLog, lastObs, handleVars,
                 barrierLog>>

\* client.reduce(&shuffledData[oldValue], tc) up to its call of emit3.
ReduceCall(w) ==
  /\ pc[w] = "red_call"
  /\ reduceLog' = reduceLog (+) SetToBag({<<oldValue[w], w>>})
  /\ pc' = [pc EXCEPT ![w] = "emit3_lock"]
  /\ UNCHANGED <<nThreads, inputVec, state, oldVal, oldValue,
                 intermediateVecs, shuffledData, shuffleCounter,
                 nextInputIndex, nextReduceIndex, shuf, count, generation,
                 gen, outputVec, outMutex, mapLog, emitLog, stageLog,
                 lastObs, handleVars,
                 barrierLog>>

\* An append that does not wait for the mutex.
LockGuardMissing(mutex) == TRUE

\* std::lock_guard's constructor returns when the mutex has no holder.
LockGuard(mutex) == mutex = NoThread

\* emit3: std::lock_guard lock(outMutex).
Emit3Lock(w) ==
  /\ pc[w] = "emit3_lock"
  /\ LockGuard(outMutex)
  /\ outMutex' = w
  /\ pc' = [pc EXCEPT ![w] = "emit3_append"]
  /\ UNCHANGED <<nThreads, inputVec, state, oldVal, oldValue,
                 intermediateVecs, shuffledData, shuffleCounter,
                 nextInputIndex, nextReduceIndex, shuf, count, generation,
                 gen, outputVec, mapLog, emitLog, reduceLog, stageLog,
                 lastObs, handleVars,
                 barrierLog>>

\* emit3: outputVec.emplace_back(key, value), then the guard's unlock.
Emit3Append(w) ==
  /\ pc[w] = "emit3_append"
  /\ outputVec' = Append(outputVec, ClientReduce(shuffledData[oldValue[w] + 1]))
  /\ outMutex' = NoThread
  /\ pc' = [pc EXCEPT ![w] = "red_inc_load"]
  /\ UNCHANGED <<nThreads, inputVec, state, oldVal, oldValue,
                 intermediateVecs, shuffledData, shuffleCounter,
                 nextInputIndex, nextReduceIndex, shuf, count, generation,
                 gen, mapLog, emitLog, reduceLog, stageLog, lastObs, handleVars,
                 barrierLog>>

\* ------------------------------------------------------------- getJobState
\* A percentage whose zero test reads numProcessed where numTotal is meant.
PercentageTestsProcessed(numProcessed, numTotal) ==
  IF numProcessed = 0 \/ numTotal = 0 THEN <<MAX_PERCENTAGE, 1>>
  ELSE IF numProcessed * MAX_PERCENTAGE >= MAX_PERCENTAGE * numTotal
       THEN <<MAX_PERCENTAGE, 1>>
       ELSE <<numProcessed * MAX_PERCENTAGE, numTotal>>

\* The percentage as the fraction <<numerator, denominator>> of 100: 100 when
\* numTotal is 0, else min(numProcessed / numTotal * 100, 100).
Percentage(numProcessed, numTotal) ==
  IF numTotal = 0 THEN <<MAX_PERCENTAGE, 1>>
  ELSE IF numProcessed * MAX_PERCENTAGE >= MAX_PERCENTAGE * numTotal
       THEN <<MAX_PERCENTAGE, 1>>
       ELSE <<numProcessed * MAX_PERCENTAGE, numTotal>>

PctLeq(a, b) == a[1] * b[2] <= b[1] * a[2]

\* getJobState on the handle of the job: one load of the word, decoded.
getJobState(packed) ==
  [stage |-> decodeStage(packed),
   percentage |-> Percentage(decodeProcessed(packed), decodeTotal(packed))]

\* The JobState getJobState(job, &state) writes: (REDUCE_STAGE, 100) for
\* the null handle, else what the progress word of the context decodes to.
JobStateOf(job) ==
  IF job = "null"
  THEN [stage |-> REDUCE_STAGE, percentage |-> <<MAX_PERCENTAGE, 1>>]
  ELSE getJobState(state)

\* The handles startMapReduceJob has returned to the client.
Returned == {"null", "ctx"}

Poll ==
  /\ handle \in Returned
  /\ lastObs' = JobStateOf(handle)
  /\ UNCHANGED <<nThreads, inputVec, state, workerVars, stageLog, handleVars,
                 barrierLog>>

\* -------------------------------------------------------------- waitForJob
\* std::thread::joinable: true until the thread has been joined.
joinable(i) == joinCount[i] = 0

\* A join that does not look at the joined flag or at joinable().
ShouldJoinAlways(i) == TRUE

\* A join condition that tests the joined flag the wrong way round.
ShouldJoinMarked(i) == joined[i] /\ joinable(i)

\* The condition under which waitForJob joins threads[i].
ShouldJoin(i) == ~joined[i] /\ joinable(i)

\* threads[i].join() returns once the thread function has returned.
JoinReturns(i) == pc[i] = "done"

\* Where a caller is before round i of the loop of waitForJob: at the lock
\* of the round, or (no thread is left) back in the caller of waitForJob.
RoundOrReturn(op, i) ==
  IF i < nThreads
  THEN [pc |-> "wait_lock", op |-> op, i |-> i]
  ELSE IF op = "close"
       THEN [pc |-> "close_delete", op |-> "close", i |-> 0]
       ELSE [pc |-> "waited", op |-> "none", i |-> 0]

\* A client thread calls waitForJob(job) on the handle of the job: it returns
\* at once for the null handle.
CallWaitForJob(c) ==
  /\ handle \in Returned
  /\ callers[c].pc \in {"idle", "waited"}
  /\ callers' = [callers EXCEPT ![c] =
                   IF handle = "null"
                   THEN [pc |-> "waited", op |-> "none", i |-> 0]
                   ELSE RoundOrReturn("wait", 0)]
  /\ UNCHANGED <<barrierLog, handle, allocated, nThreads, inputVec, state, workerVars,
                 stageLog, lastObs,
                 joined, joinCount, joinMutex, deleted, useAfterFree>>

\* A client thread calls closeJobHandle(job), which first calls waitForJob.
CallCloseJobHandle(c) ==
  /\ handle \in Returned
  /\ callers[c].pc \in {"idle", "waited"}
  /\ callers' = [callers EXCEPT ![c] =
                   IF handle = "null"
                   THEN [pc |-> "closed", op |-> "none", i |-> 0]
                   ELSE RoundOrReturn("close", 0)]
  /\ UNCHANGED <<barrierLog, handle, allocated, nThreads, inputVec, state, workerVars,
                 stageLog, lastObs,
                 joined, joinCount, joinMutex, deleted, useAfterFree>>

\* std::lock_guard lock(context->joinMutex) in round i of the loop.
WaitLock(c) ==
  /\ callers[c].pc = "wait_lock"
  /\ joinMutex = NoThread
  /\ joinMutex' = c
  /\ callers' = [callers EXCEPT ![c].pc = "wait_join"]
  /\ useAfterFree' = (useAfterFree \/ deleted > 0)
  /\ UNCHANGED <<barrierLog, handle, allocated, nThreads, inputVec, state, workerVars,
                 stageLog, lastObs,
                 joined, joinCount, deleted>>

\* Where the caller is after round i: the next round, or back in the caller
\* of waitForJob.
AfterRound(c) == RoundOrReturn(callers[c].op, callers[c].i + 1)

\* The body of round i under the lock: join the thread and mark it joined
\* unless it is marked or not joinable; then the guard's unlock.
WaitJoin(c) ==
  /\ callers[c].pc = "wait_join"
  /\ IF ShouldJoin(callers[c].i)
     THEN /\ JoinReturns(callers[c].i)
          /\ joinCount' = [joinCount EXCEPT ![callers[c].i] = @ + 1]
          /\ joined' = [joined EXCEPT ![callers[c].i] = TRUE]
     ELSE UNCHANGED <<joinCount, joined>>
  /\ joinMutex' = NoThread
  /\ callers' = [callers EXCEPT ![c] = AfterRound(c)]
  /\ useAfterFree' = (useAfterFree \/ deleted > 0)
  /\ UNCHANGED <<barrierLog, handle, allocated, nThreads, inputVec, state, workerVars,
                 stageLog, lastObs,
                 deleted>>

\* ---------------------------------------------------------- closeJobHandle
\* delete context, after waitForJob has returned.
CloseDelete(c) ==
  /\ callers[c].pc = "close_delete"
  /\ deleted' = deleted + 1
  /\ callers' = [callers EXCEPT ![c] = [pc |-> "closed", op |-> "none", i |-> 0]]
  /\ UNCHANGED <<barrierLog, handle, allocated, nThreads, inputVec, state, workerVars,
                 stageLog, lastObs,
                 joined, joinCount, joinMutex, useAfterFree>>

\* getJobState(job, &state) by a client thread whose waitForJob has returned.
PollAfterWait(c) ==
  /\ callers[c].pc = "waited"
  /\ lastObs' = JobStateOf(handle)
  /\ useAfterFree' = (useAfterFree \/ (handle = "ctx" /\ deleted > 0))
  /\ UNCHANGED <<barrierLog, handle, allocated, nThreads, inputVec, state, workerVars,
                 stageLog, callers,
                 joined, joinCount, joinMutex, deleted>>

\* Using or deleting a deleted context is undefined: the run may go on with
\* the freed memory as it was left (the actions above), or the process dies.
Abort ==
  /\ useAfterFree \/ deleted > 1
  /\ \E c \in Callers : callers[c].pc # "aborted"
  /\ callers' = [c \in Callers |-> [pc |-> "aborted", op |-> "none", i |-> 0]]
  /\ UNCHANGED <<barrierLog, handle, allocated, nThreads, inputVec, state, workerVars,
                 stageLog, lastObs,
                 joined, joinCount, joinMutex, deleted, useAfterFree>>

\* ---------------------------------------------------------- specifications
\* The worker threads of one job.
Next ==
  \/ \E w \in Workers : LoadState(w)
  \/ \E w \in Workers : CompareExchange(w)
  \/ \E w \in Workers : MapFetch(w)
  \/ \E w \in Workers : MapCall(w)
  \/ \E w \in Workers : SortPhase(w)
  \/ \E w \in Workers : BarrierArrive(w)
  \/ \E w \in Workers : BarrierWake(w)
  \/ \E w \in Workers : ShuffleCount(w)
  \/ \E w \in Workers : ShuffleScan(w)
  \/ \E w \in Workers : ShuffleMove(w)
  \/ \E w \in Workers : Publish(w)
  \/ \E w \in Workers : ReduceFetch(w)
  \/ \E w \in Workers : ReduceCall(w)
  \/ \E w \in Workers : Emit3Lock(w)
  \/ \E w \in Workers : Emit3Append(w)

Spec == Init /\ [][Next]_vars

\* The worker threads and a client thread that polls the job's state.
NextPoll == Next \/ Poll

SpecPoll == Init /\ [][NextPoll]_vars

\* The worker threads and the client threads that wait for the job, poll it
\* after the wait and close it.
NextHandle ==
  \/ Next
  \/ \E c \in Callers : CallWaitForJob(c)
  \/ \E c \in Callers : CallCloseJobHandle(c)
  \/ \E c \in Callers : WaitLock(c)
  \/ \E c \in Callers : WaitJoin(c)
  \/ \E c \in Callers : CloseDelete(c)
  \/ \E c \in Callers : PollAfterWait(c)
  \/ Abort

\* The handle operations read nothing of the input; one input pair makes the
\* workers go through every phase.
InitHandle == Init /\ Len(inputVec) = 1

SpecHandle == InitHandle /\ [][NextHandle]_vars

\* The worker threads and client threads that all call closeJobHandle on the
\* handle of the job.
NextClose ==
  \/ Next
  \/ \E c \in Callers : CallCloseJobHandle(c)
  \/ \E c \in Callers : WaitLock(c)
  \/ \E c \in Callers : WaitJoin(c)
  \/ \E c \in Callers : CloseDelete(c)
  \/ Abort

SpecClose == InitHandle /\ [][NextClose]_vars

\* The client from its call of startMapReduceJob on: the call, the worker
\* threads if it starts any, and the client threads that poll, wait for and
\* close the handle it returned.
NextStart ==
  \/ StartMapReduceJob
  \/ Next
  \/ Poll
  \/ \E c \in Callers : CallWaitForJob(c)
  \/ \E c \in Callers : CallCloseJobHandle(c)
  \/ \E c \in Callers : WaitLock(c)
  \/ \E c \in Callers : WaitJoin(c)
  \/ \E c \in Callers : CloseDelete(c)
  \/ Abort

SpecStart == InitStart /\ [][NextStart]_vars

\* A Barrier on its own: numThreads threads that each call barrier()
\* MaxCycles times and do nothing else.
InitBarrier ==
  /\ nThreads \in 1 .. MaxBarrierThreads
  /\ inputVec = <<>>
  /\ pc = [w \in Workers |-> "bar_call"]
  /\ handle = "none"
  /\ allocated = 0
  /\ InitContext

NextBarrier ==
  \/ \E w \in Workers : BarrierArrive(w)
  \/ \E w \in Workers : BarrierWake(w)

SpecBarrier == InitBarrier /\ [][NextBarrier]_vars

\* notify_all wakes every waiting thread, and a thread whose wait predicate
\* holds is scheduled and returns from cv.wait.
SpecBarrierFair ==
  /\ SpecBarrier
  /\ \A w \in 0 .. (MaxBarrierThreads - 1) :
       WF_vars(w \in Workers /\ BarrierWake(w))


\* ----------------------------------------------------- notions of the claims
MapPcs == {"mapstage_load", "mapstage_cas", "map_fetch", "map_call",
           "map_inc_load", "map_inc_cas"}
ShufflePcs == {"barrier1", "barrier1_wait", "sort", "shufstage_load",
               "shufstage_cas", "shuf_count", "settotal_load", "settotal_cas",
               "shuf_scan", "shuf_move", "shuf_inc_load", "shuf_inc_cas"}

\* Every worker has left the loop of mapPhase.
MapPhaseOver == \A w \in Workers : pc[w] \notin MapPcs

\* Thread 0 has left the loop of shufflePhase.
ShuffleFinished == pc[THREAD_ZERO] \notin (MapPcs \cup ShufflePcs)

\* Every worker has returned from threadFunc.
AllDone == \A w \in Workers : pc[w] = "done"

\* How many map calls were given input index i.
MapCallsOf(i) == CopiesIn(i, mapLog)

\* How many entries of the log of reduce calls are about group index i.
CallsOf(log, i) ==
  BagCardinality([e \in {x \in BagToSet(log) : x[1] = i} |-> log[e]])

\* The workers that made the calls of the log of reduce calls.
CallersOf(log) == {e[2] : e \in BagToSet(log)}

\* The map call that allocated the key of a pair.
MapCallOf(pair) == pair.key[2]

\* The keys passed to emit2 and their classes under the equivalence of <.
EmittedKeys == {e.key : e \in BagToSet(emitLog)}
KeyClasses == {{k \in EmittedKeys : Equiv(k, j)} : j \in EmittedKeys}

GroupIndices == 1 .. Len(shuffledData)
StageOrder == <<UNDEFINED_STAGE, MAP_STAGE, SHUFFLE_STAGE, REDUCE_STAGE>>

\* ------------------------------------------------------------------ claims
\* C1: with client threads closing the same handle concurrently, the context
\* is deleted at most once and is not used by one thread after another has
\* deleted it.
C1_ContextReleasedOnce == deleted <= 1 /\ ~useAfterFree

\* C2: once a waitForJob on the live handle has returned, the progress word
\* holds stage REDUCE with processed = total, and a getJobState made then
\* reports REDUCE and 100.
Done100 == [stage |-> REDUCE_STAGE, percentage |-> <<MAX_PERCENTAGE, 1>>]

C2_AfterWaitReduceComplete ==
  /\ (deleted = 0 /\ \E c \in Callers : callers[c].pc = "waited") =>
       /\ decodeStage(state) = REDUCE_STAGE
       /\ decodeProcessed(state) = decodeTotal(state)
       /\ getJobState(state) = Done100
  /\ (lastObs # NoObs /\ ~useAfterFree) => lastObs = Done100

C2_Witness ==
  /\ deleted = 0
  /\ nThreads = 2
  /\ \E c \in Callers : callers[c].pc = "waited"
  /\ lastObs = Done100
  /\ decodeTotal(state) = 2
  /\ CallersOf(reduceLog) = {0, 1}

C2_WitnessNoPairs ==
  /\ deleted = 0
  /\ \E c \in Callers : callers[c].pc = "waited"
  /\ lastObs = Done100
  /\ emitLog = EmptyBag
  /\ decodeTotal(state) = 0

\* C3: on a live handle every worker thread is joined at most once, the
\* joined flag is read and written only by the holder of joinMutex, and when
\* a caller has returned from waitForJob every worker has ended and has been
\* joined exactly once.
C3_JoinOncePerWorker ==
  deleted = 0 =>
    /\ \A w \in Workers : joinCount[w] <= 1
    /\ \A w \in Workers : joined[w] => (joinCount[w] = 1 /\ pc[w] = "done")
    /\ \A c \in Callers : callers[c].pc = "wait_join" => joinMutex = c
    /\ \A c \in Callers :
         callers[c].pc \in {"waited", "close_delete"} =>
           \A w \in Workers : pc[w] = "done" /\ joinCount[w] = 1

C3_Witness ==
  /\ deleted = 0
  /\ nThreads = 2
  /\ \A c \in Callers : callers[c].pc = "waited"
  /\ \A w \in Workers : joinCount[w] = 1

\* C4: when thread 0 has finished the shuffle, the pairs in the shuffled
\* groups are, as a multiset, the pairs passed to emit2 by the map calls:
\* none lost, none duplicated, and the intermediate vectors are empty.
C4_ShufflePreservesPairs ==
  ShuffleFinished =>
    /\ SeqToBag(Flatten(shuffledData)) = emitLog
    /\ \A w \in Workers : intermediateVecs[w] = <<>>

C4_Witness ==
  /\ pc[THREAD_ZERO] = "publish"
  /\ nThreads = 2
  /\ BagCardinality(emitLog) = 3
  /\ Len(shuffledData) = 2
  /\ Len(shuffledData[2]) = 2

\* C5: every input index is mapped at most once at any time and exactly once
\* when the map phase is over, and no index >= inputVec.size() is mapped.
C5_EachIndexMappedOnce ==
  /\ \A i \in BagToSet(mapLog) : i \in 0 .. (Len(inputVec) - 1)
  /\ \A i \in 0 .. (Len(inputVec) - 1) : MapCallsOf(i) <= 1
  /\ MapPhaseOver => \A i \in 0 .. (Len(inputVec) - 1) : MapCallsOf(i) = 1

C5_Witness ==
  /\ MapPhaseOver
  /\ nThreads = 2
  /\ Len(inputVec) = 2
  /\ mapLog = SetToBag({0, 1})
  /\ intermediateVecs[0] # <<>> /\ MapCallOf(intermediateVecs[0][1]) = 1
  /\ intermediateVecs[1] # <<>> /\ MapCallOf(intermediateVecs[1][1]) = 0

\* C6: a group index is reduced at most once and only if it is below
\* shuffleCounter; when the job is over the number of reduce calls is the
\* number of groups, which is shuffleCounter and the number of classes of
\* equivalent keys emitted by map.
C6_OneReducePerKeyClass ==
  /\ \A e \in BagToSet(reduceLog) :
       e[1] \in 0 .. (shuffleCounter - 1) /\ CallsOf(reduceLog, e[1]) = 1
  /\ ShuffleFinished =>
       /\ shuffleCounter = Len(shuffledData)
       /\ shuffleCounter = Cardinality(KeyClasses)
  /\ AllDone =>
       /\ BagCardinality(reduceLog) = Len(shuffledData)
       /\ \A g \in 0 .. (shuffleCounter - 1) : CallsOf(reduceLog, g) = 1

C6_Witness ==
  /\ AllDone
  /\ shuffleCounter = 2
  /\ CallersOf(reduceLog) = {0, 1}
  /\ BagCardinality(emitLog) = 3

\* C7: a group at a smaller index holds only keys strictly greater than the
\* keys of a group at a larger index.
C7_GroupsDescend ==
  \A g \in GroupIndices : \A h \in GroupIndices :
    g < h =>
      \A i \in 1 .. Len(shuffledData[g]) : \A j \in 1 .. Len(shuffledData[h]) :
        Less(shuffledData[h][j].key, shuffledData[g][i].key)

\* The first group was taken from the vector of thread 1 over the smaller
\* key at the back of the vector of thread 0, and the second group begins with
\* the pair of thread 0 while thread 1 still holds a pair of the map call that
\* emitted the first group.
C7_Witness ==
  /\ nThreads = 2
  /\ pc[THREAD_ZERO] = "shuf_inc_load"
  /\ shuf.vec = 0
  /\ Len(shuffledData) = 2
  /\ Len(shuffledData[1]) = 1
  /\ Len(shuffledData[2]) = 1
  /\ intermediateVecs[0] = <<>>
  /\ Len(intermediateVecs[1]) = 1
  /\ MapCallOf(shuffledData[1][1]) = MapCallOf(Back(intermediateVecs[1]))
  /\ MapCallOf(shuffledData[2][1]) # MapCallOf(Back(intermediateVecs[1]))

\* C8: the keys of one group are mutually equivalent, and every group that
\* has been counted in shuffleCounter is non-empty.
C8_GroupsOfEquivalentKeys ==
  \A g \in GroupIndices :
    /\ g <= shuffleCounter => shuffledData[g] # <<>>
    /\ \A i \in 1 .. Len(shuffledData[g]) : \A j \in 1 .. Len(shuffledData[g]) :
         /\ ~Less(shuffledData[g][i].key, shuffledData[g][j].key)
         /\ ~Less(shuffledData[g][j].key, shuffledData[g][i].key)

\* The group being collected holds a pair taken from the vector of thread 0
\* and a pair taken from the vector of thread 1: each vector still holds a
\* pair of the map call that emitted the pair taken from it.
C8_Witness ==
  /\ nThreads = 2
  /\ pc[THREAD_ZERO] \in ShufflePcs
  /\ Len(shuffledData) = 1
  /\ Len(shuffledData[1]) = 2
  /\ shuffledData[1][1].key # shuffledData[1][2].key
  /\ Len(intermediateVecs[0]) = 1
  /\ Len(intermediateVecs[1]) = 1
  /\ MapCallOf(shuffledData[1][1]) = MapCallOf(Back(intermediateVecs[0]))
  /\ MapCallOf(shuffledData[1][2]) = MapCallOf(Back(intermediateVecs[1]))
  /\ MapCallOf(shuffledData[1][1]) # MapCallOf(shuffledData[1][2])

\* C9: the stages the progress word takes are, in order, a prefix of
\* UNDEFINED, MAP, SHUFFLE, REDUCE, and a poll never reports a stage later
\* than the stage the word holds afterwards.
C9_StageNeverGoesBack ==
  /\ Len(stageLog) <= Len(StageOrder)
  /\ \A i \in 1 .. Len(stageLog) : stageLog[i] = StageOrder[i]
  /\ lastObs # NoObs => lastObs.stage <= decodeStage(state)

C9_Witness ==
  /\ stageLog = StageOrder
  /\ lastObs.stage = SHUFFLE_STAGE
  /\ decodeStage(state) = REDUCE_STAGE

\* C10: every poll reports one of the four stages and a percentage within
\* [0, 100], and of two successive polls that report the same stage the later
\* reports a percentage that is not smaller.
C10_ObservationInRange ==
  lastObs # NoObs =>
    /\ lastObs.stage \in {UNDEFINED_STAGE, MAP_STAGE, SHUFFLE_STAGE, REDUCE_STAGE}
    /\ PctLeq(<<0, 1>>, lastObs.percentage)
    /\ PctLeq(lastObs.percentage, <<MAX_PERCENTAGE, 1>>)

C10_SuccessivePolls ==
  lastObs'.stage = lastObs.stage =>
    PctLeq(lastObs.percentage, lastObs'.percentage)

C10_PercentageMonotoneInStage ==
  [](C10_ObservationInRange) /\ [][C10_SuccessivePolls]_vars

C10_Witness ==
  /\ lastObs.stage = MAP_STAGE
  /\ lastObs.percentage = <<MAX_PERCENTAGE, 2>>
  /\ decodeProcessed(state) = 2

\* C11: in every state the progress word holds processed <= total, whatever
\* its stage and at every step of the stage transitions.
C11_ProcessedAtMostTotal == decodeProcessed(state) <= decodeTotal(state)

\* Both inputs were mapped and counted while the stage was still UNDEFINED.
C11_Witness ==
  /\ decodeStage(state) = UNDEFINED_STAGE
  /\ decodeTotal(state) = 2
  /\ decodeProcessed(state) = 2

\* C12: whenever the stage of the progress word is SHUFFLE its total is the
\* number of pairs in the intermediate vectors at the entry of the shuffle,
\* which is the number of pairs passed to emit2.
C12_ShuffleTotalIsPairCount ==
  decodeStage(state) = SHUFFLE_STAGE =>
    decodeTotal(state) = BagCardinality(emitLog)

\* The pair the reduce call of a log entry passes to emit3, and the bag of
\* the pairs passed to emit3 by the reduce calls made so far.
Emit3Of(e) == ClientReduce(shuffledData[e[1] + 1])
Emit3Calls ==
  [p \in {Emit3Of(e) : e \in BagToSet(reduceLog)} |->
     BagCardinality([e \in {x \in BagToSet(reduceLog) : Emit3Of(x) = p}
                       |-> reduceLog[e]])]

\* C13: at most one worker is inside the append of emit3, and when every
\* worker has returned the output vector holds, as a multiset, the pairs the
\* reduce calls passed to emit3.
C13_OutputIsSerialized ==
  /\ Cardinality({w \in Workers : pc[w] = "emit3_append"}) <= 1
  /\ \A w \in Workers : pc[w] = "emit3_append" <=> outMutex = w
  /\ AllDone => SeqToBag(outputVec) = Emit3Calls

\* Two workers have emitted one pair each, the second group's first.
C13_Witness ==
  /\ AllDone
  /\ Len(outputVec) = 2
  /\ CallersOf(reduceLog) = {0, 1}
  /\ outputVec[1] = ClientReduce(shuffledData[2])
  /\ outputVec[1] # outputVec[2]

\* The run with one thread: the pairs of the map calls in input order, and
\* one reduce call on the pairs of each class of equivalent keys.
RECURSIVE MapAll(_)
MapAll(i) ==
  IF i > Len(inputVec) THEN <<>>
  ELSE ClientMap(inputVec[i], i - 1) \o MapAll(i + 1)

SingleThreadOutput ==
  LET pairs == MapAll(1)
  IN SetToBag({ClientReduce(SelectSeq(pairs, LAMBDA p : Equiv(p.key, k))) :
                 k \in {pairs[i].key : i \in 1 .. Len(pairs)}})

\* C14: when the job is over the output is, as a multiset, a function of the
\* input alone: for every thread count and every interleaving it is the
\* output of the run with one thread.
C14_OutputIndependentOfThreads ==
  AllDone => SeqToBag(outputVec) = SingleThreadOutput

\* Two workers reduced a group each and one output pair sums the counts of
\* pairs emitted by two map calls.
C14_Witness ==
  /\ AllDone
  /\ nThreads = 2
  /\ Len(inputVec) = 2
  /\ CallersOf(reduceLog) = {0, 1}
  /\ \E i \in 1 .. Len(outputVec) : outputVec[i].val = 2

\* C15: startMapReduceJob on an empty input returns the null handle, creates
\* no context and starts no thread; on the null handle getJobState reports
\* (REDUCE, 100) and waitForJob and closeJobHandle return at once and leave
\* the state as it is.
C15_EmptyInputNullHandle ==
  /\ inputVec = <<>> => handle \in {"none", "null"}
  /\ handle = "null" =>
       /\ inputVec = <<>>
       /\ allocated = 0
       /\ \A w \in Workers : pc[w] = "unborn"
       /\ lastObs # NoObs => lastObs = Done100
       /\ \A c \in Callers : callers[c].pc \in {"idle", "waited", "closed"}
       /\ deleted = 0 /\ ~useAfterFree
       /\ joinMutex = NoThread
       /\ \A w \in Workers : ~joined[w] /\ joinCount[w] = 0
       /\ state = encodeState(UNDEFINED_STAGE, 0, 0)
       /\ outputVec = <<>>

\* On the null handle one client has polled, one has waited, one has closed.
C15_Witness ==
  /\ handle = "null"
  /\ nThreads = 2
  /\ lastObs = Done100
  /\ callers[1].pc = "waited"
  /\ callers[2].pc = "closed"

\* C16: a handle that is not null belongs to a job with at least one worker,
\* and no context is created for a thread count below 1.
C16_ThreadCountValidated ==
  /\ handle = "ctx" => nThreads >= 1
  /\ allocated > 0 => nThreads >= 1

\* C17: the word is set to (MAP, 0, inputVec.size()) once, and while its
\* stage is still UNDEFINED no worker has fetched an input index or called
\* the client's map.
C17_MapStageBeforeMapWork ==
  /\ Cardinality({i \in 1 .. Len(stageLog) : stageLog[i] = MAP_STAGE}) <= 1
  /\ \A w \in Workers : pc[w] \in {"mapstage_load", "mapstage_cas"} =>
                           w = THREAD_ZERO
  /\ decodeStage(state) = UNDEFINED_STAGE =>
       nextInputIndex = 0 /\ mapLog = EmptyBag

\* Every worker has entered the first call of the barrier and thread 0 has
\* not yet written the SHUFFLE stage.
AllAtFirstBarrier ==
  /\ \A w \in Workers : pc[w] \notin (MapPcs \cup {"sort", "barrier1"})
  /\ pc[THREAD_ZERO] \in {"barrier1_wait", "shufstage_load", "shufstage_cas"}

\* C18: when every worker has arrived at the first barrier the word is
\* (MAP, inputVec.size(), inputVec.size()): every map call is counted.
C18_EveryMapCallCounted ==
  AllAtFirstBarrier =>
    state = encodeState(MAP_STAGE, Len(inputVec), Len(inputVec))

\* C19: no thread has returned from its k-th call of barrier() unless every
\* thread has entered its k-th call; a thread that has entered a call is
\* counted in the cycle of that call only: count is the number of threads
\* that have entered the cycle after the last release.
C19_NoEarlyRelease ==
  /\ \A w \in Workers : \A v \in Workers : left[w] <= entered[v]
  /\ \A w \in Workers : entered[w] \in {generation, generation + 1}
  /\ count = Cardinality({w \in Workers : entered[w] = generation + 1})
  /\ \A w \in Workers : pc[w] \in WaitPcs /\ entered[w] = generation + 1 =>
                           ~WaitIsOver(gen[w])

\* Of three threads, one has returned from cycle 2 and entered cycle 3 while
\* another, released from cycle 2, has not yet returned from it.
C19_Witness ==
  /\ nThreads = 3
  /\ \E w \in Workers : \E v \in Workers :
       /\ left[w] = 2 /\ entered[w] = 3 /\ pc[w] = "bar_wait"
       /\ left[v] = 1 /\ entered[v] = 2 /\ pc[v] = "bar_wait"

\* A thread blocked in the wait of its k-th call whose cycle has been
\* released.
ReleasedIn(w, k) ==
  /\ w \in Workers
  /\ pc[w] \in WaitPcs
  /\ entered[w] = k
  /\ left[w] = k - 1
  /\ generation >= k

\* A release resets the count and advances the generation by one.
ReleaseStep ==
  generation' # generation =>
    /\ generation' = generation + 1
    /\ count = nThreads - 1
    /\ count' = 0

\* C20: every thread blocked in a cycle that has been released returns from
\* that call in the end, also when other threads have entered the next
\* cycle, and each release resets the count and adds one to the generation,
\* in every cycle.
C20_ReleaseIsLive ==
  /\ \A w \in 0 .. (MaxBarrierThreads - 1) : \A k \in 1 .. MaxCycles :
       ReleasedIn(w, k) ~> (w \in Workers /\ left[w] >= k)
  /\ [][ReleaseStep]_vars
  /\ []((\A w \in Workers : pc[w] = "bar_done") => generation = MaxCycles)

\* A thread released from the last cycle has not yet returned while the
\* others have; before that, the barrier went through every cycle.
C20_Witness ==
  /\ nThreads = 3
  /\ generation = MaxCycles
  /\ count = 0
  /\ \E w \in Workers :
       /\ ReleasedIn(w, MaxCycles)
       /\ \A v \in Workers \ {w} : pc[v] = "bar_done"

\* Every worker has left mapPhase and sortPhase.
AllSorted == \A w \in Workers : pc[w] \notin (MapPcs \cup {"sort"})

\* Thread 0 is between the first barrier and the end of shufflePhase.
CoordinatorInShuffle ==
  pc[THREAD_ZERO] \in (ShufflePcs \ {"sort", "barrier1", "barrier1_wait"})

\* A step of the shuffle: the stage becomes SHUFFLE, or the locals of
\* shufflePhase, the groups or the length of a vector change after the sorts.
ShuffleStep ==
  \/ decodeStage(state) # SHUFFLE_STAGE /\ decodeStage(state') = SHUFFLE_STAGE
  \/ shuf' # shuf
  \/ shuffledData' # shuffledData
  \/ \E w \in Workers : Len(intermediateVecs'[w]) < Len(intermediateVecs[w])

\* Once every worker has sorted, a vector only loses elements at its back.
NoAppendAfterSort ==
  AllSorted =>
    \A w \in Workers :
      /\ Len(intermediateVecs'[w]) <= Len(intermediateVecs[w])
      /\ intermediateVecs'[w] =
           SubSeq(intermediateVecs[w], 1, Len(intermediateVecs'[w]))

\* C21: thread 0 takes no step of the shuffle before every worker has ended
\* its map calls and its sort; from then on every vector is ascending by key
\* and nothing is appended to it.
C21_SortsBeforeShuffle ==
  /\ [](CoordinatorInShuffle \/ decodeStage(state) = SHUFFLE_STAGE =>
          AllSorted /\ \A w \in Workers : IsSortedVec(intermediateVecs[w]))
  /\ [][(ShuffleStep => AllSorted) /\ NoAppendAfterSort]_vars

\* Thread 0 is about to scan the vectors: its own holds the three pairs of
\* two map calls, reordered by the sort, and thread 1 has sorted too.
C21_Witness ==
  /\ nThreads = 2
  /\ pc[THREAD_ZERO] = "shuf_scan"
  /\ shuffledData = <<>>
  /\ Len(intermediateVecs[0]) = 3
  /\ MapCallOf(intermediateVecs[0][1]) = 0
  /\ MapCallOf(intermediateVecs[0][3]) = 0

\* The positions of a worker in reducePhase and after it.
ReducePcs == {"red_fetch", "red_call", "emit3_lock", "emit3_append",
              "red_inc_load", "red_inc_cas", "done"}

\* Thread 0 has ended the shuffle and stored (REDUCE, 0, shuffleCounter).
Published ==
  /\ pc[THREAD_ZERO] \notin (MapPcs \cup ShufflePcs \cup {"publish"})
  /\ shuffleCounter = Len(shuffledData)
  /\ stageLog[Len(stageLog)] = REDUCE_STAGE
  /\ decodeStage(state) = REDUCE_STAGE
  /\ decodeTotal(state) = shuffleCounter

\* C22: a worker is in reducePhase, or an index has been fetched or a group
\* reduced, only after thread 0 has ended the shuffle and published
\* (REDUCE, 0, shuffleCounter); once a worker is past the second barrier the
\* groups and shuffleCounter do not change.
C22_ShuffleBeforeReduce ==
  /\ []((\/ \E w \in Workers : pc[w] \in ReducePcs
         \/ nextReduceIndex > 0
         \/ reduceLog # EmptyBag) => Published)
  /\ [][(\E w \in Workers : pc[w] \in ReducePcs) =>
          shuffledData' = shuffledData /\ shuffleCounter' = shuffleCounter]_vars

\* Thread 1, the last to arrive at the second barrier, reduces a group while
\* thread 0 has not yet returned from its wait.
C22_Witness ==
  /\ nThreads = 2
  /\ pc[THREAD_ZERO] = "barrier2_wait"
  /\ pc[1] = "red_call"
  /\ shuffleCounter = 2

\* A step that changes vector i is a map call or the sort of thread i before
\* thread 0 is in the shuffle, or a pop by thread 0 in the shuffle when
\* every worker has sorted and none is in reducePhase; it changes no other
\* vector, and a map call appends the pairs of that call.
VectorStep(i) ==
  intermediateVecs'[i] # intermediateVecs[i] =>
    /\ \A j \in Workers \ {i} : intermediateVecs'[j] = intermediateVecs[j]
    /\ \/ /\ pc[i] = "sort" /\ pc'[i] = "barrier1"
          /\ ~CoordinatorInShuffle
          /\ SeqToBag(intermediateVecs'[i]) = SeqToBag(intermediateVecs[i])
       \/ /\ pc[i] = "map_call" /\ pc'[i] = "map_inc_load"
          /\ ~CoordinatorInShuffle
          /\ intermediateVecs'[i] =
               intermediateVecs[i]
                 \o ClientMap(inputVec[oldValue[i] + 1], oldValue[i])
       \/ /\ pc[THREAD_ZERO] = "shuf_move"
          /\ pc'[THREAD_ZERO] = "shuf_inc_load"
          /\ shuf.vec = i
          /\ AllSorted
          /\ \A w \in Workers : pc[w] \notin ReducePcs
          /\ intermediateVecs'[i] = PopBack(intermediateVecs[i])

\* C23: a vector is changed only by its owner before the first barrier and
\* only by thread 0 between the barriers, never after the second barrier,
\* and the owners' and thread 0's use of the vectors do not overlap.
C23_VectorsExclusive ==
  /\ [][\A i \in Workers : VectorStep(i)]_vars
  /\ [](CoordinatorInShuffle => AllSorted)
  /\ []((\E w \in Workers : pc[w] \in ReducePcs) =>
          ~CoordinatorInShuffle /\ AllSorted
          /\ \A w \in Workers : intermediateVecs[w] = <<>>)

\* Thread 0 has just popped a pair off the vector of thread 1, which waits
\* in a barrier and still holds the other pair of the same map call.
C23_Witness ==
  /\ nThreads = 2
  /\ pc[THREAD_ZERO] = "shuf_inc_load"
  /\ shuf.vec = 1
  /\ pc[1] \in WaitPcs
  /\ Len(intermediateVecs[1]) = 1
  /\ Len(shuffledData) = 1
  /\ MapCallOf(Back(shuffledData[1])) = MapCallOf(intermediateVecs[1][1])

\* The pairs moved into the groups so far.
PairsMoved == Len(Flatten(shuffledData))

\* C24: when the shuffle loop of thread 0 has ended, every vector is empty,
\* shuffleCounter is the number of groups and the word is (SHUFFLE, n, n) for
\* the n pairs emitted; during the loop processed is the number of pairs
\* moved, less the one whose incrementProcessed is still running.
C24_ShuffleEndsComplete ==
  /\ pc[THREAD_ZERO] = "publish" =>
       /\ \A w \in Workers : intermediateVecs[w] = <<>>
       /\ shuffleCounter = Len(shuffledData)
       /\ PairsMoved = BagCardinality(emitLog)
       /\ state = encodeState(SHUFFLE_STAGE, BagCardinality(emitLog),
                              BagCardinality(emitLog))
  /\ pc[THREAD_ZERO] \in {"shuf_scan", "shuf_move", "publish"} =>
       /\ decodeStage(state) = SHUFFLE_STAGE
       /\ decodeProcessed(state) = PairsMoved
       /\ decodeTotal(state) = BagCardinality(emitLog)
  /\ pc[THREAD_ZERO] \in {"shuf_inc_load", "shuf_inc_cas"} =>
       /\ decodeStage(state) = SHUFFLE_STAGE
       /\ decodeProcessed(state) + 1 = PairsMoved
       /\ decodeTotal(state) = BagCardinality(emitLog)

\* The loop has ended for two threads: three pairs in two groups, one of the
\* groups holding two pairs.
C24_Witness ==
  /\ nThreads = 2
  /\ pc[THREAD_ZERO] = "publish"
  /\ BagCardinality(emitLog) = 3
  /\ Len(shuffledData) = 2
  /\ \E g \in 1 .. 2 : Len(shuffledData[g]) = 2
  /\ decodeProcessed(state) = 3

\* Every worker has returned from threadFunc and has been joined, once.
AllJoined ==
  \A w \in Workers : pc[w] = "done" /\ joined[w] /\ joinCount[w] = 1

\* C25: the context is deleted only when every worker has returned from
\* threadFunc and has been joined, so no worker runs once it is deleted.
C25_DeleteAfterJoins ==
  /\ [](deleted > 0 => AllJoined)
  /\ [][deleted' # deleted => AllJoined /\ deleted' = deleted + 1]_vars
  /\ [](\A c \in Callers : callers[c].pc = "close_delete" => AllJoined)

\* One client thread has deleted the context of a job of two workers while
\* another, which called closeJobHandle too, is still in the loop of
\* waitForJob.
C25_Witness ==
  /\ nThreads = 2
  /\ deleted = 1
  /\ \E c, d \in Callers :
       /\ callers[c].pc = "closed"
       /\ callers[d].pc = "wait_lock"
       /\ callers[d].op = "close"

\* ------------------------------------------------------- a job that is run
\* Any step of worker w.
WorkerStep(w) ==
  \/ LoadState(w)
  \/ CompareExchange(w)
  \/ MapFetch(w)
  \/ MapCall(w)
  \/ SortPhase(w)
  \/ BarrierArrive(w)
  \/ BarrierWake(w)
  \/ ShuffleCount(w)
  \/ ShuffleScan(w)
  \/ ShuffleMove(w)
  \/ Publish(w)
  \/ ReduceFetch(w)
  \/ ReduceCall(w)
  \/ Emit3Lock(w)
  \/ Emit3Append(w)

\* The client thread that started the job.
MainThread == 1

\* The worker threads, a client thread that polls the state of the job and
\* the main thread, which calls waitForJob.
NextJob ==
  \/ Next
  \/ Poll
  \/ CallWaitForJob(MainThread)
  \/ WaitLock(MainThread)
  \/ WaitJoin(MainThread)

\* A job of one input pair, which emits up to two pairs in two groups.
SpecJob == InitHandle /\ [][NextJob]_vars

\* The scheduler runs every thread that can take a step: each worker, the
\* thread inside waitForJob and the polling thread (a poll that reads what
\* the previous poll read changes nothing). The client's map and reduce are
\* steps, so they return.
SpecJobFair ==
  /\ SpecJob
  /\ \A w \in 0 .. (MaxThreads - 1) : WF_vars(w \in Workers /\ WorkerStep(w))
  /\ WF_vars(WaitLock(MainThread) \/ WaitJoin(MainThread))
  /\ WF_vars(Poll)

\* Worker w has returned from both calls of barrier() and from reducePhase.
Returns(w) == pc[w] = "done" /\ left[w] = 2

\* C26: under fair scheduling every worker of a job passes both barriers and
\* returns from reducePhase, a call of waitForJob returns, and the polling
\* thread reads (REDUCE_STAGE, 100) in the end and from then on.
C26_JobCompletes ==
  /\ <>[](\A w \in Workers : Returns(w))
  /\ (callers[MainThread].pc \in {"wait_lock", "wait_join"})
       ~> (callers[MainThread].pc = "waited")
  /\ <>[](lastObs = Done100)

\* A job of two workers that reduced two groups has ended: the main thread
\* is back from waitForJob and the latest poll read (REDUCE_STAGE, 100).
C26_Witness ==
  /\ nThreads = 2
  /\ \A w \in Workers : Returns(w)
  /\ shuffleCounter = 2
  /\ Len(outputVec) = 2
  /\ callers[MainThread].pc = "waited"
  /\ joined[0] /\ joined[1]
  /\ lastObs = Done100

\* The exchanges of incrementProcessed, by its three callers.
IncPcs == {"map_inc_cas", "shuf_inc_cas", "red_inc_cas"}

\* The workers between their call of reduce and the return of the
\* incrementProcessed that follows it.
Reducing ==
  {w \in Workers : pc[w] \in {"emit3_lock", "emit3_append", "red_inc_load",
                              "red_inc_cas"}}

\* A step in which the incrementProcessed of some worker returns adds one to
\* processed of the word as it is, not as the worker read it, and keeps its
\* stage and total; an exchange that fails writes nothing; and the word is
\* written by one worker at a time.
IncrementStep ==
  /\ \A w \in Workers :
       pc[w] \in IncPcs =>
         IF pc'[w] = AfterCas(pc[w])
         THEN /\ state = oldVal[w]
              /\ decodeProcessed(state') = decodeProcessed(state) + 1
              /\ decodeStage(state') = decodeStage(state)
              /\ decodeTotal(state') = decodeTotal(state)
         ELSE pc'[w] = pc[w] /\ (oldVal'[w] # oldVal[w] => state' = state)
  /\ state' # state =>
       \E w \in Workers :
         /\ pc[w] \in CasPcs \cup {"publish"}
         /\ pc'[w] # pc[w]
         /\ \A v \in Workers \ {w} : pc'[v] = pc[v]

\* C27: each incrementProcessed adds exactly one to processed and keeps the
\* stage and total the word has at its successful exchange, whatever the
\* other workers do in between; with no stage or total write in between (the
\* REDUCE stage), processed is the number of increments that have returned.
C27_IncrementIsAtomic ==
  /\ [][IncrementStep]_vars
  /\ [](decodeStage(state) = REDUCE_STAGE =>
          /\ decodeTotal(state) = shuffleCounter
          /\ decodeProcessed(state) + Cardinality(Reducing) =
               BagCardinality(reduceLog))

\* Two workers increment at once in the REDUCE stage: the word counts the
\* increment of one, and the other is at its exchange with the word it read
\* before that increment.
C27_Witness ==
  /\ nThreads = 2
  /\ decodeStage(state) = REDUCE_STAGE
  /\ decodeProcessed(state) = 1
  /\ \E w \in Workers :
       /\ pc[w] = "red_inc_cas"
       /\ oldVal[w] # state
       /\ decodeProcessed(oldVal[w]) = 0
====
